---- MODULE Spec2Model ----
(***************************************************************************)
(* Model of psychopy/speech/google_speech.py: one _GSQueryThread worker,   *)
(* the GoogleSpeech.getThread / getResponse caller, the watchdog Timer and *)
(* a wall clock.  Every Python statement that reads or writes a field of   *)
(* the shared thread object is one step, so that the interleavings of the  *)
(* worker and the caller are the ones the interpreter can produce.         *)
(***************************************************************************)
EXTENDS Integers, Sequences, FiniteSets, TLC

\* ------------------------------------------------------------- bounds
\* opt.timeout, in clock ticks (the default of 10 s is scaled down)
Timeout == 2
\* latest clock value at which run() records t0 and line 292 starts the Timer
MaxT0 == 0
\* the clock stops here: late enough for elapsed() to pass the timeout
MaxTime == MaxT0 + Timeout + 1
\* the count of encoder invocations is kept up to this number and stays there
MaxEncodes == 3
\* most sound files on one command line
MaxFiles == 2

\* ------------------------------------------------------------- values
\* Python's None, or an attribute that was never assigned: the empty tuple;
\* a present value v is the one-element tuple <<v>>.
None == <<>>
Some(v) == <<v>>
Val(o) == o[1]

\* Strings are sequences of one-character strings.
K_utterance == <<"u","t","t","e","r","a","n","c","e">>
K_confidence == <<"c","o","n","f","i","d","e","n","c","e">>
K_status == <<"s","t","a","t","u","s">>
K_hypotheses == <<"h","y","p","o","t","h","e","s","e","s">>
K_id == <<"i","d">>

\* JSON values: one record shape, tagged by t
JStr(s) == [t |-> "str", s |-> s, n |-> 0, l |-> <<>>]
JInt(n) == [t |-> "int", s |-> <<>>, n |-> n, l |-> <<>>]
\* a float, in hundredths
JFloat(n) == [t |-> "float", s |-> <<>>, n |-> n, l |-> <<>>]
JList(l) == [t |-> "list", s |-> <<>>, n |-> 0, l |-> l]

\* a JSON object (dict) is the sequence of its <<key, value>> pairs in
\* iteration order
HasKey(obj, k) == \E i \in 1..Len(obj) : obj[i][1] = k
Lookup(obj, k) == obj[CHOOSE i \in 1..Len(obj) : obj[i][1] = k][2]

\* ------------------------------------------------------------- strings
Digit(d) == <<"0","1","2","3","4","5","6","7","8","9">>[d + 1]

RECURSIVE Digits(_)
Digits(n) == IF n < 10 THEN <<Digit(n)>> ELSE Digits(n \div 10) \o <<Digit(n % 10)>>

\* str() of a float given in hundredths, 0.0 .. 9.99
FloatStr(n) ==
    Digits(n \div 100) \o <<".">> \o
    (IF n % 10 = 0 THEN <<Digit((n \div 10) % 10)>>
     ELSE <<Digit((n \div 10) % 10), Digit(n % 10)>>)

\* "%s" % v
Str(v) ==
    CASE v.t = "str" -> v.s
      [] v.t = "int" -> Digits(v.n)
      [] v.t = "float" -> FloatStr(v.n)
      [] OTHER -> <<"[", "]">>

RECURSIVE Spaces(_)
Spaces(n) == IF n <= 0 THEN <<>> ELSE <<" ">> \o Spaces(n - 1)

\* "%-10s : %s" % (k, v)
FormatLine(k, v) == k \o Spaces(10 - Len(k)) \o <<" ", ":", " ">> \o Str(v)

StartsWith(s, p) == Len(s) >= Len(p) /\ SubSeq(s, 1, Len(p)) = p

\* positions of character c in s
Positions(s, c) == {i \in 1..Len(s) : s[i] = c}
Min(S) == CHOOSE x \in S : \A y \in S : x <= y

\* s.split(':')[1]: the text between the first ':' and the second (or the end)
SplitColon1(s) ==
    LET ps == Positions(s, ":")
        p1 == Min(ps)
        rest == {p \in ps : p > p1}
        p2 == IF rest = {} THEN Len(s) + 1 ELSE Min(rest)
    IN  SubSeq(s, p1 + 1, p2 - 1)

RECURSIVE Lstrip(_)
Lstrip(s) == IF s # <<>> /\ Head(s) = " " THEN Lstrip(Tail(s)) ELSE s

RECURSIVE Join(_)
\* '\n'.join(lines)
Join(lines) ==
    IF lines = <<>> THEN <<>>
    ELSE IF Len(lines) = 1 THEN lines[1]
    ELSE lines[1] \o <<"\n">> \o Join(Tail(lines))

\* ------------------------------------------------------------- _unpackRaw
RECURSIVE DictLines(_)
\* lines 180-181: one report line per field of a dict, in iteration order
DictLines(d) ==
    IF d = <<>> THEN <<>>
    ELSE <<FormatLine(d[1][1], d[1][2])>> \o DictLines(Tail(d))

RECURSIVE HypLines(_)
\* lines 179-181 over all hypotheses
HypLines(hyps) ==
    IF hyps = <<>> THEN <<>> ELSE DictLines(hyps[1]) \o HypLines(Tail(hyps))

RECURSIVE TopLines(_)
\* lines 184-186: top-level fields other than "hypotheses"
TopLines(obj) ==
    IF obj = <<>> THEN <<>>
    ELSE (IF obj[1][1] # K_hypotheses
          THEN <<FormatLine(obj[1][1], obj[1][2])>> ELSE <<>>)
         \o TopLines(Tail(obj))

\* lines 178-186: the report list
Report(obj) == HypLines(Lookup(obj, K_hypotheses).l) \o TopLines(obj)

\* float(x) raises for a value that is not a number
FloatOk(v) == v.t \in {"int", "float"}
Float(v) == IF v.t = "int" THEN v.n * 100 ELSE v.n

RECURSIVE ConfValues(_)
\* the values of the 'confidence' fields met by the loop of lines 179-183
ConfValues(hyps) ==
    IF hyps = <<>> THEN <<>>
    ELSE (IF HasKey(hyps[1], K_confidence)
          THEN <<Lookup(hyps[1], K_confidence)>> ELSE <<>>)
         \o ConfValues(Tail(hyps))

\* line 183 assigns at every confidence field: the last one stays
LastConfidence(hyps, old) ==
    LET cs == ConfValues(hyps)
    IN  IF cs = <<>> THEN old ELSE Some(Float(cs[Len(cs)]))

\* the loop raises when "hypotheses" is missing or a confidence is no number
LoopOk(obj) ==
    /\ HasKey(obj, K_hypotheses)
    /\ LET cs == ConfValues(Lookup(obj, K_hypotheses).l)
       IN  \A i \in 1..Len(cs) : FloatOk(cs[i])

RECURSIVE UtterLines(_)
UtterLines(report) ==
    IF report = <<>> THEN <<>>
    ELSE (IF StartsWith(report[1], K_utterance)
          THEN <<Lstrip(SplitColon1(report[1]))>> ELSE <<>>)
         \o UtterLines(Tail(report))

\* lines 188-189
Words(report) == UtterLines(report)

\* lines 190-193
FirstWord(ws) == IF Len(ws) > 0 THEN ws[1] ELSE <<>>

\* ------------------------------------------------------------- responses
S_hi == <<"h","i">>
Hyp(u, c) == <<<<K_utterance, JStr(u)>>, <<K_confidence, JFloat(c)>>>>

\* a response body: valid says whether json.load can read it
GoodPayload ==
    [valid |-> TRUE,
     obj |-> <<<<K_status, JInt(0)>>, <<K_id, JStr(<<"x">>)>>,
               <<K_hypotheses, JList(<<Hyp(S_hi, 87)>>)>>>>]
EmptyPayload ==
    [valid |-> TRUE,
     obj |-> <<<<K_status, JInt(5)>>, <<K_id, JStr(<<"x">>)>>,
               <<K_hypotheses, JList(<<>>)>>>>]
MalformedPayload == [valid |-> FALSE, obj |-> <<>>]
NoStatusPayload ==
    [valid |-> TRUE, obj |-> <<<<K_hypotheses, JList(<<Hyp(S_hi, 87)>>)>>>>]
NoHypPayload == [valid |-> TRUE, obj |-> <<<<K_status, JInt(0)>>>>]

Payloads ==
    {GoodPayload, EmptyPayload, MalformedPayload, NoStatusPayload, NoHypPayload}

\* json.load, status and the loop all succeed
Parsable(p) == p.valid /\ HasKey(p.obj, K_status) /\ LoopOk(p.obj)

\* ------------------------------------------------------------- state
VARIABLES
    now,            \* _getTime()
    th,             \* the fields of the _GSQueryThread object
    wpc,            \* the worker's position in run()
    report,         \* _unpackRaw's local list
    calls,          \* outcomes of the urlopen calls made so far
    cpc,            \* the caller's position
    mode,           \* "threaded": getThread(); "blocking": getResponse();
                    \* "cli": the __main__ block
    eto,            \* where the elapsed() call in progress returns to
    eres,           \* value of the last elapsed() call that returned
    efrozen,        \* for the user's calls of elapsed(): whether that call,
                    \* and the one in progress, began when the task was
                    \* started and no longer running
    poll,           \* what getResponse's loop observed
    snap,           \* the result fields as getResponse returned them
    runningThreads, \* core.runningThreads
    timer,          \* the threading.Timer of line 292
    hist,           \* whether stop() was called, and whether before a call
                    \* of urlopen had returned
    ctor,           \* GoogleSpeech.__init__: its arguments, what it has done
                    \* so far and what it built or raised
    cli             \* the __main__ block: files, position in the list, error

vars == <<now, th, wpc, report, calls, cpc, mode, eto, eres, efrozen, poll,
          snap, runningThreads, timer, hist, ctor, cli>>

\* the one thread object of the model
TID == 1

\* lines 141-165: __init__ and _reset; status, conf and file are attributes
\* that do not exist yet
NewThread ==
    [t0 |-> None, response |-> None, duration |-> None, stopflag |-> FALSE,
     running |-> FALSE, timedout |-> FALSE, started |-> FALSE,
     confidence |-> None, json |-> None, raw |-> None, word |-> <<>>,
     detailed |-> <<>>, words |-> <<>>,
     status |-> None, conf |-> None, file |-> None]

\* exit: how the loop of lines 302-305 was left; r306: what line 306 read
NoPoll == [exit |-> "none", r306 |-> None]
\* stopped: stop() was called; stopEarly: before any urlopen had returned;
\* stopDone: after run() had finished
NoHist == [stopped |-> FALSE, stopEarly |-> FALSE, stopDone |-> FALSE]
NoFrozen == [last |-> FALSE, call |-> FALSE]

\* ------------------------------------------------------------- options
\* values of -r on the command line, or assigned to gsOptions.samplingrate
Rates == {8000, 16000, 44100}

\* lines 117-118
ParsedRate(r) == IF r \notin {16000, 8000} THEN 16000 ELSE r

\* ------------------------------------------------------------- file names
Max(S) == CHOOSE x \in S : \A y \in S : x >= y

E_flac == <<".","f","l","a","c">>
E_spx == <<".","s","p","x">>
E_wav == <<".","w","a","v">>
E_mp3 == <<".","m","p","3">>

\* sound files named on the command line or passed to GoogleSpeech
Files == {<<"a">> \o E_flac, <<"a">> \o E_spx, <<"a">> \o E_wav,
          <<"a">> \o E_mp3, <<"a">>}

\* line 230, os.path.splitext(file)[1] for a name without directories: from
\* the last dot to the end; a name's leading dot begins no extension
Splitext1(f) ==
    LET ps == Positions(f, ".")
    IN  IF ps = {} \/ Max(ps) = 1 THEN <<>> ELSE SubSeq(f, Max(ps), Len(f))

\* lines 237, 239, 243
T_flac == <<"x","-","f","l","a","c">>
T_speex ==
    <<"x","-","s","p","e","e","x","-","w","i","t","h","-",
      "h","e","a","d","e","r","-","b","y","t","e">>

\* line 276: 'audio/%s; rate=%d' % (filetype, opt.samplingrate)
ContentType(filetype, rate) ==
    <<"a","u","d","i","o","/">> \o filetype \o
    <<";"," ","r","a","t","e","=">> \o Digits(rate)

\* the text after "rate=" in a Content-Type value
RateField(h) == SubSeq(h, Min(Positions(h, "=")) + 1, Len(h))

\* the state of a call of GoogleSpeech(file, opt) that has not begun:
\* argRate is the -r value _parse_options saw, rate is opt.samplingrate,
\* exists/readable say what os.path.isfile(file) and open(file, 'r+b') find,
\* flac says whether FLAC_PATH is a file
NewCtor(f, ex, rd, fl, ar) ==
    [file |-> f, exists |-> ex, readable |-> rd, flac |-> fl, argRate |-> ar,
     rate |-> None, ext |-> None, filetype |-> None, tmp |-> FALSE,
     encoded |-> 0, read |-> FALSE, header |-> None, request |-> FALSE,
     exc |-> "none"]

\* GoogleSpeech('a.flac', gsOptions) with the default options has returned
Constructed ==
    [NewCtor(<<"a">> \o E_flac, TRUE, TRUE, TRUE, 16000) EXCEPT
       !.rate = Some(16000), !.ext = Some(E_flac), !.filetype = Some(T_flac),
       !.read = TRUE, !.header = Some(ContentType(T_flac, 16000)),
       !.request = TRUE]

\* the __main__ block: argv is sys.argv, files the list of line 312, done the
\* files the loop has taken so far, bad whether some file's query timed out
\* or left no status or a status other than 0, exit the process's exit code
NewCli(argv) ==
    [argv |-> argv, files |-> <<>>, done |-> <<>>, error |-> 0,
     bad |-> FALSE, exit |-> None]

\* the module was imported: the __main__ block does not run
NotCli == NewCli(<<>>)

Init ==
    /\ now = 0
    /\ th = NewThread
    /\ wpc = "unborn"
    /\ report = <<>>
    /\ calls = <<>>
    /\ cpc = "g288"
    /\ mode \in {"threaded", "blocking"}
    /\ eto = "user"
    /\ eres = None
    /\ efrozen = NoFrozen
    /\ poll = NoPoll
    /\ snap = None
    /\ runningThreads = <<>>
    /\ timer = [armed |-> FALSE, at |-> 0, fired |-> 0]
    /\ hist = NoHist
    /\ ctor = Constructed
    /\ cli = NotCli

\* ------------------------------------------------------------- the clock
Tick ==
    /\ now < MaxTime
    /\ (th.t0 = None \/ ~timer.armed) => now < MaxT0
    /\ now' = now + 1
    /\ UNCHANGED <<ctor, cli, th, wpc, report, calls, cpc, mode, eto, eres,
                   efrozen, poll, snap, runningThreads, timer, hist>>

\* ------------------------------------------------------------- run()
WorkerStep(from, to, newth) ==
    /\ wpc = from
    /\ wpc' = to
    /\ th' = newth
    /\ UNCHANGED <<ctor, cli, now, report, calls, cpc, mode, eto, eres, efrozen, poll,
                   snap, runningThreads, timer, hist>>

\* line 195
run_195 ==
    /\ wpc = "r195"
    /\ WorkerStep("r195", "r196", [th EXCEPT !.t0 = Some(now)])

\* line 196
run_196 ==
    /\ wpc = "r196"
    /\ WorkerStep("r196", "r197", [th EXCEPT !.running = TRUE])

\* line 197
run_197 ==
    /\ wpc = "r197"
    /\ WorkerStep("r197", "r198", [th EXCEPT !.started = TRUE])

\* line 198
run_198 ==
    /\ wpc = "r198"
    /\ WorkerStep("r198", "r200", [th EXCEPT !.duration = Some(0)])

\* the thread object once urlopen has returned some response into raw
Responses(t) == {[t EXCEPT !.raw = Some(p)] : p \in Payloads}

NetStep(from, to, outcome, newth) ==
    /\ wpc = from
    /\ wpc' = to
    /\ th' \in newth
    /\ calls' = Append(calls, outcome)
    /\ UNCHANGED <<ctor, cli, now, report, cpc, mode, eto, eres, efrozen, poll, snap,
                   runningThreads, timer, hist>>

\* line 200: the first urlopen returns
run_200_ok ==
    /\ wpc = "r200"
    /\ NetStep("r200", "r209", "ok", Responses(th))

\* lines 200-201: the first urlopen raises; the bare except catches anything
run_200_except ==
    /\ wpc = "r200"
    /\ NetStep("r200", "r204", "err", {th})

\* line 204: the second urlopen returns
run_204_ok ==
    /\ wpc = "r204"
    /\ NetStep("r204", "r209", "ok", Responses(th))

\* lines 204-207: the second urlopen raises a StandardError
run_204_StandardError ==
    /\ wpc = "r204"
    /\ NetStep("r204", "r208", "err", {th})

\* line 204: the second urlopen raises an exception that is no StandardError
\* (httplib.HTTPException and its subclasses): run() is left by the exception
run_204_otherException ==
    /\ wpc = "r204"
    /\ NetStep("r204", "crashed", "exc", {th})

\* line 208
run_208 ==
    /\ wpc = "r208"
    /\ WorkerStep("r208", "r209", [th EXCEPT !.running = FALSE])

\* line 209
run_209 ==
    /\ wpc = "r209"
    /\ WorkerStep("r209", "r211", [th EXCEPT !.duration = Some(now - Val(th.t0))])

\* a run() that unpacks whenever a response has arrived, whatever stop() did
\* in the meantime
run_211_ignores_stop ==
    /\ wpc = "r211"
    /\ WorkerStep("r211", IF th.raw # None THEN "u176" ELSE "r216", th)

\* line 211
run_211 ==
    /\ wpc = "r211"
    /\ WorkerStep("r211", IF th.running THEN "u176" ELSE "r216", th)

\* line 213
run_213 ==
    /\ wpc = "r213"
    /\ WorkerStep("r213", "r214", [th EXCEPT !.running = FALSE])

\* line 214
run_214 ==
    /\ wpc = "r214"
    /\ WorkerStep("r214", "done", [th EXCEPT !.timedout = FALSE])

\* line 216
run_216 ==
    /\ wpc = "r216"
    /\ WorkerStep("r216", "done", [th EXCEPT !.timedout = TRUE])

\* ------------------------------------------------------------- _unpackRaw
\* line 176: json.load raises on a malformed body
unpackRaw_176 ==
    /\ wpc = "u176"
    /\ IF Val(th.raw).valid
       THEN WorkerStep("u176", "u177", [th EXCEPT !.json = Some(Val(th.raw).obj)])
       ELSE WorkerStep("u176", "crashed", th)

\* line 177: KeyError when there is no status
unpackRaw_177 ==
    /\ wpc = "u177"
    /\ IF HasKey(Val(th.json), K_status)
       THEN WorkerStep("u177", "u179",
                       [th EXCEPT !.status = Some(Lookup(Val(th.json), K_status).n)])
       ELSE WorkerStep("u177", "crashed", th)

\* lines 178-186: the two loops that fill report and set conf, confidence
unpackRaw_179 ==
    /\ wpc = "u179"
    /\ IF LoopOk(Val(th.json))
       THEN LET hyps == Lookup(Val(th.json), K_hypotheses).l
            IN  /\ wpc' = "u187"
                /\ report' = Report(Val(th.json))
                /\ th' = [th EXCEPT
                            !.confidence = LastConfidence(hyps, th.confidence),
                            !.conf = LastConfidence(hyps, th.conf)]
       ELSE /\ wpc' = "crashed"
            /\ UNCHANGED <<report, th>>
    /\ UNCHANGED <<ctor, cli, now, calls, cpc, mode, eto, eres, efrozen, poll, snap,
                   runningThreads, timer, hist>>

\* line 187
unpackRaw_187 ==
    /\ wpc = "u187"
    /\ WorkerStep("u187", "u188", [th EXCEPT !.detailed = Join(report)])

\* lines 188-189
unpackRaw_188 ==
    /\ wpc = "u188"
    /\ WorkerStep("u188", "u190", [th EXCEPT !.words = Words(report)])

\* lines 190-193
unpackRaw_190 ==
    /\ wpc = "u190"
    /\ WorkerStep("u190", "r213", [th EXCEPT !.word = FirstWord(th.words)])

\* ------------------------------------------------------------- getThread
CallerStep(from, to) ==
    /\ cpc = from
    /\ cpc' = to
    /\ UNCHANGED <<ctor, cli, now, report, calls, mode, eto, eres, efrozen, poll, snap,
                   hist>>

\* line 288: the constructor
getThread_288 ==
    /\ CallerStep("g288", "g289")
    /\ wpc = "unborn"
    /\ wpc' = "created"
    /\ th' = NewThread
    /\ UNCHANGED <<runningThreads, timer>>

\* line 289: start() hands run() to a new thread
getThread_289 ==
    /\ CallerStep("g289", "g291")
    /\ wpc = "created"
    /\ wpc' = "r195"
    /\ UNCHANGED <<th, runningThreads, timer>>

\* lines 290-292 (haveCore is True once the imports of line 47 succeeded):
\* neither statement touches the thread object
getThread_291 ==
    /\ CallerStep("g291", "g294")
    /\ runningThreads' = Append(runningThreads, TID)
    /\ timer' = [armed |-> TRUE, at |-> now, fired |-> 0]
    /\ UNCHANGED <<th, wpc>>

\* lines 293-294
getThread_294 ==
    /\ CallerStep("g294", "g295")
    /\ th' = [th EXCEPT !.file = Some("file")]
    /\ UNCHANGED <<wpc, runningThreads, timer>>

\* lines 295, 297: leave the loop and return once running is read as True
getThread_295 ==
    /\ CallerStep("g295",
                  IF th.running
                  THEN (CASE mode = "blocking" -> "p302"
                          [] mode = "cli" -> "m320"
                          [] OTHER -> "user")
                  ELSE "g296")
    /\ UNCHANGED <<th, wpc, runningThreads, timer>>

\* line 296
getThread_296 ==
    /\ CallerStep("g296", "g295")
    /\ UNCHANGED <<th, wpc, runningThreads, timer>>

\* line 285, run by the Timer of line 292 once the timeout has passed; index()
\* raises ValueError in the timer's thread when the thread is not in the list
RemoveFirst(seq, x) ==
    IF \E i \in 1..Len(seq) : seq[i] = x
    THEN LET i == Min({j \in 1..Len(seq) : seq[j] = x})
         IN  SubSeq(seq, 1, i - 1) \o SubSeq(seq, i + 1, Len(seq))
    ELSE seq

removeThread ==
    /\ timer.armed
    /\ timer.fired = 0
    /\ now >= timer.at + Timeout
    /\ timer' = [timer EXCEPT !.fired = 1]
    /\ runningThreads' = RemoveFirst(runningThreads, TID)
    /\ UNCHANGED <<ctor, cli, now, th, wpc, report, calls, cpc, mode, eto, eres,
                   efrozen, poll, snap, hist>>

\* ------------------------------------------------------------- elapsed()
AfterElapsed(to) ==
    CASE to = "user" -> "user"
      [] to = "m320e" -> "m320c"
      [] OTHER -> "p302c"

\* lines 168-169: elapsed() is entered by the user, by line 302 or by
\* line 320
elapsed_168 ==
    /\ cpc \in {"user", "p302", "m320e"}
    /\ eto' = cpc
    /\ IF th.started = FALSE
       THEN /\ cpc' = AfterElapsed(cpc)
            /\ eres' = None
            /\ efrozen' = NoFrozen
       ELSE /\ cpc' = "e170"
            /\ eres' = eres
            /\ efrozen' = IF cpc = "user"
                          THEN [efrozen EXCEPT !.call = ~th.running]
                          ELSE efrozen
    /\ UNCHANGED <<ctor, cli, now, th, wpc, report, calls, mode, poll, snap,
                   runningThreads, timer, hist>>

\* line 170
elapsed_170 ==
    /\ CallerStep("e170", IF th.running THEN "e171" ELSE "e173")
    /\ UNCHANGED <<th, wpc, runningThreads, timer>>

ElapsedReturn(from, v) ==
    /\ cpc = from
    /\ cpc' = AfterElapsed(eto)
    /\ eres' = v
    /\ efrozen' = [last |-> efrozen.call, call |-> FALSE]
    /\ UNCHANGED <<ctor, cli, now, th, wpc, report, calls, mode, eto, poll, snap,
                   runningThreads, timer, hist>>

\* line 171
elapsed_171 ==
    /\ cpc = "e171"
    /\ ElapsedReturn("e171", Some(now - Val(th.t0)))

\* line 173
elapsed_173 ==
    /\ cpc = "e173"
    /\ ElapsedReturn("e173", th.duration)

\* ------------------------------------------------------------- stop()
StopHist ==
    [hist EXCEPT
       !.stopped = TRUE,
       !.stopEarly = @ \/ (\A i \in 1..Len(calls) : calls[i] # "ok"),
       !.stopDone = @ \/ wpc = "done"]

\* a stop() that also freezes the duration at the moment of the call
stop_freezes ==
    /\ cpc = "user"
    /\ th' = [th EXCEPT !.running = FALSE, !.duration = Some(now - Val(th.t0))]
    /\ hist' = StopHist
    /\ UNCHANGED <<ctor, cli, now, wpc, report, calls, cpc, mode, eto, eres, efrozen, poll,
                   snap, runningThreads, timer>>

\* line 218, called by the holder of the handle
stop ==
    /\ cpc = "user"
    /\ th' = [th EXCEPT !.running = FALSE]
    /\ hist' = StopHist
    /\ UNCHANGED <<ctor, cli, now, wpc, report, calls, cpc, mode, eto, eres, efrozen, poll,
                   snap, runningThreads, timer>>

\* ------------------------------------------------------------- getResponse
\* an ordering in which None is below nothing
PyLess_NoneNotLess(o, n) == o # None /\ Val(o) < n

\* Python 2 orders None before every number: None < x is True
PyLess(o, n) == o = None \/ Val(o) < n

PollStep(from, to, newpoll) ==
    /\ cpc = from
    /\ cpc' = to
    /\ poll' = newpoll
    /\ UNCHANGED <<ctor, cli, now, th, wpc, report, calls, mode, eto, eres, efrozen, snap,
                   runningThreads, timer, hist>>

\* line 302: the loop condition, on the value elapsed() returned
getResponse_302 ==
    /\ cpc = "p302c"
    /\ IF PyLess(eres, Timeout)
       THEN PollStep("p302c", "p303", poll)
       ELSE PollStep("p302c", "p306", [poll EXCEPT !.exit = "cond"])

\* line 303
getResponse_303 ==
    /\ cpc = "p303"
    /\ PollStep("p303", "p304", poll)

\* lines 304-305
getResponse_304 ==
    /\ cpc = "p304"
    /\ IF th.running
       THEN PollStep("p304", "p302", poll)
       ELSE PollStep("p304", "p306", [poll EXCEPT !.exit = "break"])

\* line 306
getResponse_306 ==
    /\ cpc = "p306"
    /\ PollStep("p306", IF th.running THEN "p307" ELSE "p308",
                [poll EXCEPT !.r306 = Some(th.running)])

\* line 307
getResponse_307 ==
    /\ cpc = "p307"
    /\ cpc' = "p308"
    /\ th' = [th EXCEPT !.status = Some(408)]
    /\ UNCHANGED <<ctor, cli, now, wpc, report, calls, mode, eto, eres, efrozen, poll,
                   snap, runningThreads, timer, hist>>

\* what the caller reads through the handle
View(t) ==
    [status |-> t.status, json |-> t.json, words |-> t.words, word |-> t.word,
     confidence |-> t.confidence, detailed |-> t.detailed]

\* line 308: the caller has the handle and reads its fields
getResponse_308 ==
    /\ cpc = "p308"
    /\ cpc' = "returned"
    /\ snap' = Some(View(th))
    /\ UNCHANGED <<ctor, cli, now, th, wpc, report, calls, mode, eto, eres, efrozen, poll,
                   runningThreads, timer, hist>>

\* ------------------------------------------------------------- __init__
CtorStep(from, to, newctor) ==
    /\ cpc = from
    /\ cpc' = to
    /\ ctor' = newctor
    /\ UNCHANGED <<cli, now, th, wpc, report, calls, mode, eto, eres, efrozen,
                   poll, snap, runningThreads, timer, hist>>

\* raise: the constructor is left by the exception
Raise(from, name) == CtorStep(from, "raised", [ctor EXCEPT !.exc = name])

\* count one more call of the encoder
Encoded(n) == IF n < MaxEncodes THEN n + 1 ELSE n

\* lines 116-120, run once by line 124 when the module is loaded
parse_options_116 ==
    /\ cpc = "o116"
    /\ CtorStep("o116", "imported",
                [ctor EXCEPT !.rate = Some(ParsedRate(ctor.argRate))])

\* lines 97-99: the importing program assigns an attribute of gsOptions
setOption ==
    /\ cpc = "imported"
    /\ \E r \in Rates :
         CtorStep("imported", "assigned", [ctor EXCEPT !.rate = Some(r)])

\* lines 222-230
init_225 ==
    /\ cpc \in {"imported", "assigned"}
    /\ CtorStep(cpc, "c231", [ctor EXCEPT !.ext = Some(Splitext1(ctor.file))])

\* lines 231-232
init_231 ==
    /\ cpc = "c231"
    /\ IF ~ctor.exists
       THEN Raise("c231", "IOError")
       ELSE CtorStep("c231", "c233", ctor)

\* an extension test that lets '.mp3' through
init_233_accepts_mp3 ==
    /\ cpc = "c233"
    /\ IF Val(ctor.ext) \notin {E_flac, E_spx, E_wav, E_mp3}
       THEN Raise("c233", "SoundFormatNotSupported")
       ELSE CtorStep("c233", "c236", ctor)

\* lines 233-234
init_233 ==
    /\ cpc = "c233"
    /\ IF Val(ctor.ext) \notin {E_flac, E_spx, E_wav}
       THEN Raise("c233", "SoundFormatNotSupported")
       ELSE CtorStep("c233", "c236", ctor)

\* lines 235-243: with any other extension no branch binds filetype and
\* line 255 raises NameError
init_236 ==
    /\ cpc = "c236"
    /\ CASE Val(ctor.ext) = E_flac ->
              CtorStep("c236", "c255", [ctor EXCEPT !.filetype = Some(T_flac)])
         [] Val(ctor.ext) = E_spx ->
              CtorStep("c236", "c255", [ctor EXCEPT !.filetype = Some(T_speex)])
         [] Val(ctor.ext) = E_wav ->
              IF ~ctor.flac
              THEN Raise("c236", "SystemExit")
              ELSE CtorStep("c236", "c246", [ctor EXCEPT !.filetype = Some(T_flac)])
         [] OTHER -> Raise("c236", "NameError")

\* lines 244-247: the encoder runs; its output file appears or does not
init_246 ==
    /\ cpc = "c246"
    /\ \E out \in BOOLEAN :
         CtorStep("c246", "c248",
                  [ctor EXCEPT !.encoded = Encoded(@), !.tmp = out])

\* lines 248, 254
init_248 ==
    /\ cpc = "c248"
    /\ CtorStep("c248", IF ~ctor.tmp THEN "c252" ELSE "c255", ctor)

\* lines 251-253
init_252 ==
    /\ cpc = "c252"
    /\ \E out \in BOOLEAN :
         CtorStep("c252", "c248",
                  [ctor EXCEPT !.encoded = Encoded(@), !.tmp = out])

\* lines 255-268: the file is there (line 231, or the loop of line 248), so
\* the loop of line 258 does not wait; open() fails on a file that cannot be
\* opened for reading and writing; os.remove(tmp) removes the encoder's
\* output, and raises a NameError that is swallowed when there is none
init_256 ==
    /\ cpc = "c255"
    /\ IF Val(ctor.ext) = E_wav
       THEN CtorStep("c255", "c271", [ctor EXCEPT !.read = TRUE, !.tmp = FALSE])
       ELSE IF ctor.readable
            THEN CtorStep("c255", "c271", [ctor EXCEPT !.read = TRUE])
            ELSE Raise("c255", "SoundFileError")

\* lines 271-277
init_271 ==
    /\ cpc = "c271"
    /\ CtorStep("c271", "c279",
                [ctor EXCEPT !.header =
                    Some(ContentType(Val(ctor.filetype), Val(ctor.rate)))])

\* lines 278-283: urllib2.Request only stores its arguments
init_279 ==
    /\ cpc = "c279"
    /\ CtorStep("c279", "constructed", [ctor EXCEPT !.request = TRUE])

\* ------------------------------------------------------------- __main__
Script == <<"g", ".", "p", "y">>
\* the k-th sound file of the command line
SoundFile(k) == <<Digit(k)>> \o E_flac
\* sys.argv with n sound files
Argv(n) == <<Script>> \o [k \in 1..n |-> SoundFile(k)]

\* f[-4:]
Last4(f) == SubSeq(f, IF Len(f) > 4 THEN Len(f) - 3 ELSE 1, Len(f))

RECURSIVE SoundFiles(_)
\* line 312
SoundFiles(argv) ==
    IF argv = <<>> THEN <<>>
    ELSE (IF Last4(argv[1]) \in {Tail(E_flac), E_spx, E_wav}
          THEN <<argv[1]>> ELSE <<>>)
         \o SoundFiles(Tail(argv))

MainStep(from, to, newcli) ==
    /\ cpc = from
    /\ cpc' = to
    /\ cli' = newcli
    /\ UNCHANGED <<ctor, now, th, wpc, report, calls, mode, eto, eres, efrozen,
                   poll, snap, runningThreads, timer, hist>>

\* lines 311-314: sys.exit() with the help text, a string, exits with code 1
main_311 ==
    /\ cpc = "m311"
    /\ LET fs == SoundFiles(cli.argv)
       IN  IF Len(cli.argv) = 1 \/ Len(fs) = 0
           THEN MainStep("m311", "exited",
                         [cli EXCEPT !.error = 0, !.files = fs, !.exit = Some(1)])
           ELSE MainStep("m311", "m316",
                         [cli EXCEPT !.error = 0, !.files = fs])

\* lines 316, 334: the next file, or sys.exit(error) after the last one
main_316 ==
    /\ cpc = "m316"
    /\ IF Len(cli.done) < Len(cli.files)
       THEN MainStep("m316", "m317",
                     [cli EXCEPT !.done = Append(@, cli.files[Len(@) + 1])])
       ELSE MainStep("m316", "exited", [cli EXCEPT !.exit = Some(cli.error)])

\* line 317, for a sound file that is there and can be read: the constructor
\* returns.  From here on the variables of the query describe the query of
\* this file, and the clock is read from its start; the thread of the file
\* before, if it still runs, holds no reference the loop reads.
main_317 ==
    /\ cpc = "m317"
    /\ cpc' = "g288"
    /\ ctor' = [Constructed EXCEPT !.file = cli.done[Len(cli.done)]]
    /\ now' = 0
    /\ th' = NewThread
    /\ wpc' = "unborn"
    /\ report' = <<>>
    /\ calls' = <<>>
    /\ eres' = None
    /\ runningThreads' = <<>>
    /\ timer' = [armed |-> FALSE, at |-> 0, fired |-> 0]
    /\ hist' = NoHist
    /\ UNCHANGED <<cli, mode, eto, efrozen, poll, snap>>

MainRead(from, to) ==
    /\ cpc = from
    /\ cpc' = to
    /\ UNCHANGED <<ctor, cli, now, th, wpc, report, calls, mode, eto, eres,
                   efrozen, poll, snap, runningThreads, timer, hist>>

\* line 320, left operand: resp.running
main_320 ==
    /\ cpc = "m320"
    /\ MainRead("m320", IF th.running THEN "m320e" ELSE "m323")

\* lines 320-322, right operand, on the value elapsed() returned
main_320c ==
    /\ cpc = "m320c"
    /\ MainRead("m320c", IF PyLess(eres, Timeout) THEN "m320" ELSE "m323")

\* line 323
main_323 ==
    /\ cpc = "m323"
    /\ MainRead("m323", IF th.running THEN "m324" ELSE "m327")

\* line 324
main_324 ==
    /\ cpc = "m324"
    /\ cpc' = "m325"
    /\ th' = [th EXCEPT !.status = Some(408)]
    /\ cli' = [cli EXCEPT !.bad = TRUE]
    /\ UNCHANGED <<ctor, now, wpc, report, calls, mode, eto, eres, efrozen,
                   poll, snap, runningThreads, timer, hist>>

\* lines 325-326
main_325 ==
    /\ cpc = "m325"
    /\ cpc' = "m327"
    /\ th' = [th EXCEPT !.running = FALSE]
    /\ hist' = StopHist
    /\ UNCHANGED <<ctor, cli, now, wpc, report, calls, mode, eto, eres,
                   efrozen, poll, snap, runningThreads, timer>>

\* lines 327-332: resp.status raises AttributeError when status was never
\* assigned, and the interpreter exits with code 1 on the uncaught exception
main_327 ==
    /\ cpc = "m327"
    /\ CASE th.status = None ->
              MainStep("m327", "aborted",
                       [cli EXCEPT !.bad = TRUE, !.exit = Some(1)])
         [] th.status # None /\ Val(th.status) # 0 ->
              MainStep("m327", "m316", [cli EXCEPT !.bad = TRUE, !.error = 1])
         [] OTHER -> MainStep("m327", "m316", cli)

\* ------------------------------------------------------------- the system
Worker ==
    \/ run_195 \/ run_196 \/ run_197 \/ run_198
    \/ run_208 \/ run_209 \/ run_211 \/ run_213 \/ run_214 \/ run_216
    \/ unpackRaw_176 \/ unpackRaw_177 \/ unpackRaw_179
    \/ unpackRaw_187 \/ unpackRaw_188 \/ unpackRaw_190

Network ==
    \/ run_200_ok \/ run_200_except
    \/ run_204_ok \/ run_204_StandardError \/ run_204_otherException

Caller ==
    \/ getThread_288 \/ getThread_289 \/ getThread_291
    \/ getThread_294 \/ getThread_295 \/ getThread_296
    \/ getResponse_302 \/ getResponse_303 \/ getResponse_304
    \/ getResponse_306 \/ getResponse_307 \/ getResponse_308

\* inside elapsed(), once it was entered
Elapsed == elapsed_170 \/ elapsed_171 \/ elapsed_173

Next ==
    \/ Tick
    \/ Worker
    \/ Network
    \/ Caller
    \/ elapsed_168
    \/ Elapsed
    \/ stop
    \/ removeThread

Spec == Init /\ [][Next]_vars

\* getResponse() alone, under fair scheduling: the clock advances, and the
\* interpreter keeps running every thread that is not blocked in urlopen.
\* Nothing makes urlopen return.
InitBlocking == Init /\ mode = "blocking"

NextBlocking ==
    \/ Tick
    \/ Worker
    \/ Network
    \/ Caller
    \/ elapsed_168
    \/ Elapsed
    \/ removeThread

FairSpec ==
    /\ InitBlocking
    /\ [][NextBlocking]_vars
    /\ WF_vars(Tick)
    /\ WF_vars(Worker)
    /\ WF_vars(Caller \/ elapsed_168 \/ Elapsed)
    /\ WF_vars(removeThread)

\* GoogleSpeech(file, opt) alone: the module is loaded with some -r value,
\* the importer may change the options, and the constructor runs on some
\* file.  The interpreter keeps executing the constructor's statements.
CtorInit ==
    /\ now = 0
    /\ th = NewThread
    /\ wpc = "unborn"
    /\ report = <<>>
    /\ calls = <<>>
    /\ cpc = "o116"
    /\ mode = "threaded"
    /\ eto = "user"
    /\ eres = None
    /\ efrozen = NoFrozen
    /\ poll = NoPoll
    /\ snap = None
    /\ runningThreads = <<>>
    /\ timer = [armed |-> FALSE, at |-> 0, fired |-> 0]
    /\ hist = NoHist
    /\ \E f \in Files, ex \in BOOLEAN, rd \in BOOLEAN, fl \in BOOLEAN,
          ar \in Rates : ctor = NewCtor(f, ex, rd, fl, ar)
    /\ cli = NotCli

CtorNext ==
    \/ parse_options_116
    \/ setOption
    \/ init_225 \/ init_231 \/ init_233 \/ init_236
    \/ init_246 \/ init_248 \/ init_252
    \/ init_256 \/ init_271 \/ init_279

CtorSpec == CtorInit /\ [][CtorNext]_vars /\ WF_vars(CtorNext)


\* _unpackRaw alone, on every response of a bounded family: run() has read
\* running as True at line 211 and calls _unpackRaw at line 212.
S_a_colon_b == <<"a", ":", "b">>
S_space_a == <<" ", "a">>
Utterances == {S_hi, S_a_colon_b, S_space_a}

\* one hypothesis: utterance and confidence, utterance alone, confidence alone
Hypotheses ==
    {Hyp(u, 87) : u \in Utterances}
    \cup {<<<<K_utterance, JStr(u)>>>> : u \in Utterances}
    \cup {<<<<K_confidence, JFloat(87)>>>>}

\* most hypotheses in one response
MaxHyps == 2

HypLists == UNION {[1..n -> Hypotheses] : n \in 0..MaxHyps}

WellFormed(hyps) ==
    [valid |-> TRUE,
     obj |-> <<<<K_status, JInt(0)>>, <<K_id, JStr(<<"x">>)>>,
               <<K_hypotheses, JList(hyps)>>>>]

UnpackInit ==
    /\ now = 0
    /\ \E hyps \in HypLists :
         th = [NewThread EXCEPT !.t0 = Some(0), !.running = TRUE,
                                !.started = TRUE, !.duration = Some(0),
                                !.file = Some("file"),
                                !.raw = Some(WellFormed(hyps))]
    /\ wpc = "u176"
    /\ report = <<>>
    /\ calls = <<"ok">>
    /\ cpc = "user"
    /\ mode = "threaded"
    /\ eto = "user"
    /\ eres = None
    /\ efrozen = NoFrozen
    /\ poll = NoPoll
    /\ snap = None
    /\ runningThreads = <<TID>>
    /\ timer = [armed |-> TRUE, at |-> 0, fired |-> 0]
    /\ hist = NoHist
    /\ ctor = Constructed
    /\ cli = NotCli

UnpackNext ==
    \/ unpackRaw_176 \/ unpackRaw_177 \/ unpackRaw_179
    \/ unpackRaw_187 \/ unpackRaw_188 \/ unpackRaw_190

UnpackSpec == UnpackInit /\ [][UnpackNext]_vars

\* the module run as a script on a command line of up to MaxFiles sound
\* files
CliInit ==
    /\ now = 0
    /\ th = NewThread
    /\ wpc = "unborn"
    /\ report = <<>>
    /\ calls = <<>>
    /\ cpc = "m311"
    /\ mode = "cli"
    /\ eto = "user"
    /\ eres = None
    /\ efrozen = NoFrozen
    /\ poll = NoPoll
    /\ snap = None
    /\ runningThreads = <<>>
    /\ timer = [armed |-> FALSE, at |-> 0, fired |-> 0]
    /\ hist = NoHist
    /\ ctor = [NewCtor(<<>>, FALSE, FALSE, TRUE, 16000) EXCEPT
                 !.rate = Some(16000)]
    /\ \E n \in 0..MaxFiles : cli = NewCli(Argv(n))

GetThread ==
    \/ getThread_288 \/ getThread_289 \/ getThread_291
    \/ getThread_294 \/ getThread_295 \/ getThread_296

Main ==
    \/ main_311 \/ main_316 \/ main_317
    \/ main_320 \/ main_320c \/ main_323 \/ main_324 \/ main_325 \/ main_327

CliNext ==
    \/ Tick
    \/ Worker
    \/ Network
    \/ GetThread
    \/ elapsed_168
    \/ Elapsed
    \/ Main
    \/ removeThread

CliSpec == CliInit /\ [][CliNext]_vars

\* ------------------------------------------------------------- properties
\* run() has returned
Finished == wpc = "done"
\* run() was left, by return or by an exception
Ended == wpc \in {"done", "crashed"}
Succeeded == Finished /\ ~th.running /\ ~th.timedout
\* lines 195-196 have run
RunBegun == wpc \notin {"unborn", "created", "r195", "r196"}
ResultEmpty(t) ==
    /\ t.json = None /\ t.words = <<>> /\ t.word = <<>>
    /\ t.confidence = None /\ t.detailed = <<>>
InUnpack == wpc \in {"u176", "u177", "u179", "u187", "u188", "u190"}
GetThreadReturned == cpc \notin {"g288", "g289", "g291", "g294", "g295", "g296"}
\* a step on which a call of elapsed() returns (its value is eres')
ElapsedReturns ==
    elapsed_171 \/ elapsed_173 \/ (elapsed_168 /\ cpc' # "e170")

\* C1: once run() has finished (running False, timedout assigned), no step of
\* any thread changes running, timedout or duration, and the task stays
\* finished.
C1_TerminalIsStable ==
    /\ [](Finished => ~th.running)
    /\ [][Finished => /\ Finished'
                      /\ th'.running = th.running
                      /\ th'.timedout = th.timedout
                      /\ th'.duration = th.duration]_vars
\* stop() and the watchdog have both acted on a finished task
C1_Witness == Finished /\ hist.stopDone /\ timer.fired = 1

\* C2: at every moment the result fields are populated if and only if the
\* task is Succeeded; no result is visible while running is True.
C2_ResultIffSucceeded ==
    (~ResultEmpty(th) \/ th.status # None) <=> Succeeded

\* C3: at most two urlopen calls, the second only after the first raised;
\* first fails and second succeeds without stop(): the task ends Succeeded
\* (for a response that parses); both fail: the task ends with running False,
\* timedout True and an empty result.
C3_RetryOnce ==
    /\ Len(calls) <= 2
    /\ Len(calls) = 2 => calls[1] # "ok"
    /\ (Ended /\ calls = <<"err", "ok">> /\ ~hist.stopped
          /\ Parsable(Val(th.raw)))
         => (Succeeded /\ th.json # None)
    /\ (Ended /\ Len(calls) = 2 /\ calls[2] # "ok")
         => (Finished /\ ~th.running /\ th.timedout /\ ResultEmpty(th))

\* C4: when stop() was called before urlopen had returned a response, the
\* parsed result is never exposed, and run() ends with running False and
\* timedout True.
C4_StopBeforeSuccess ==
    hist.stopEarly =>
        /\ ResultEmpty(th)
        /\ ~InUnpack
        /\ Finished => (~th.running /\ th.timedout)
\* stop() came first, then urlopen returned a response, and run() finished
C4_Witness ==
    /\ hist.stopEarly /\ Finished /\ th.timedout
    /\ \E i \in 1..Len(calls) : calls[i] = "ok"

\* C5: after getResponse() returned on a timeout (line 306 read running as
\* True), the handle shows status 408 and the result fields it had at the
\* return, whatever the task does later.
C5_ReturnedViewStable ==
    (cpc = "returned" /\ poll.r306 = Some(TRUE)) =>
        (th.status = Some(408) /\ View(th) = Val(snap))

\* C6: under fair scheduling getThread() eventually returns, and never
\* before run() has begun.
C6_GetThreadReturns ==
    /\ <>GetThreadReturned
    /\ [](GetThreadReturned => wpc \notin {"unborn", "created", "r195"})

\* C7: once getThread() has returned, getResponse() eventually returns; when
\* its loop has ended it was left by the break with the task not running, or
\* by the condition with elapsed() at least the timeout; and status becomes
\* 408 only at line 307 after line 306 read running as True.
C7_BoundedWait ==
    /\ (cpc = "p302") ~> (cpc = "returned")
    /\ [](cpc \in {"p306", "p307", "p308", "returned"} =>
            \/ poll.exit = "break" /\ ~th.running
            \/ poll.exit = "cond" /\ eres # None /\ Val(eres) >= Timeout)
    /\ [][(th'.status = Some(408) /\ th.status # Some(408)) =>
            (cpc = "p307" /\ poll.r306 = Some(TRUE))]_vars
\* getResponse() returned after its loop ran into the timeout
C7_Witness ==
    /\ cpc = "returned" /\ poll.exit = "cond" /\ th.status = Some(408)
    /\ Val(eres) >= Timeout

\* C8: elapsed() returns None when run() has not recorded the start time,
\* and a number whenever it returns after run() has set running to True.
C8_NoneOnlyBeforeRun ==
    [][ElapsedReturns =>
         /\ th.t0 = None => eres' = None
         /\ RunBegun => eres' # None]_vars

\* C9: the numbers successive elapsed() calls return never decrease, and two
\* successive calls that both began after running had become False return
\* the same number.
C9_ElapsedMonotone ==
    [][ElapsedReturns =>
         /\ (eres # None /\ eres' # None) => Val(eres') >= Val(eres)
         /\ (efrozen.last /\ efrozen.call /\ eres # None /\ eres' # None)
              => eres' = eres]_vars

\* C10: when both urlopen calls fail (with errors run() catches), the handle
\* getResponse() returns shows what a timeout shows: run() has returned,
\* running is False, the result is empty and status is 408.
C10_FailureLooksTimedOut ==
    (cpc = "returned" /\ calls = <<"err", "err">> /\ Ended) =>
        /\ Finished /\ ~th.running /\ ResultEmpty(th)
        /\ th.status = Some(408)

\* C11: when urlopen returned a response that cannot be parsed, then once
\* run() has ended and getResponse() has returned, the handle does not show
\* what a timeout shows (running True with status 408) and timedout is not
\* True.
C11_ParseErrorDistinct ==
    (cpc = "returned" /\ Ended /\ th.raw # None /\ ~Parsable(Val(th.raw))) =>
        /\ ~th.timedout
        /\ ~(th.running /\ th.status = Some(408))

\* the network phase of run() is over: a response arrived in raw, or both
\* calls raised errors that run() caught
NetReturned == th.raw # None
NetFailed == calls = <<"err", "err">>

\* C12: under fair scheduling, once urlopen has returned a response (of any
\* kind) or both calls have failed, running eventually becomes False.
C12_RunningCleared ==
    /\ NetFailed ~> ~th.running
    /\ NetReturned ~> ~th.running

\* C13: the Timer runs _removeThread at most once, the call raises no error
\* (the thread is in the list), and when the task has already succeeded the
\* call changes neither the task's fields nor core.runningThreads.
C13_WatchdogInert ==
    /\ [](timer.fired <= 1)
    /\ [][removeThread => (\E i \in 1..Len(runningThreads) :
                              runningThreads[i] = TID)]_vars
    /\ [][(removeThread /\ Succeeded) =>
            (th' = th /\ runningThreads' = runningThreads)]_vars

\* a step taken by the caller side (getThread, getResponse, elapsed(), stop())
\* after start(): the worker has not moved
CallerSideStep == wpc' = wpc /\ wpc \notin {"unborn", "created"}
\* the fields of the thread object other than f are left alone
OnlyField(f) == \A g \in (DOMAIN th) \ {f} : th'[g] = th[g]

\* C14: after start() the caller side changes no field of the task other
\* than running, and running only by stop(); in particular it never writes
\* status, which the worker writes at line 177.
C14_SingleWriter ==
    /\ [][CallerSideStep => OnlyField("running")]_vars
    /\ [][(CallerSideStep /\ th'.running # th.running) => stop]_vars
    /\ [][CallerSideStep => th'.status = th.status]_vars

\* what a reader of the three flags takes for Succeeded
SucceededPattern == th.started /\ ~th.running /\ ~th.timedout

\* C20: whenever the flags read started True, running False, timedout False,
\* urlopen has returned, _unpackRaw has completed, no stop() came before a
\* response had arrived, and the calls did not both fail.
C20_FlagsIdentifySucceeded ==
    SucceededPattern =>
        /\ wpc \in {"r214", "done"}
        /\ th.raw # None /\ th.json # None
        /\ ~hist.stopEarly
        /\ calls # <<"err", "err">>

\* the constructor was left, by return or by an exception
CtorEnded == cpc \in {"constructed", "raised"}
\* no encoder call, no file read, no header and no request object
NothingBuilt ==
    /\ ctor.encoded = 0 /\ ~ctor.tmp /\ ~ctor.read
    /\ ctor.header = None /\ ~ctor.request
\* names whose extension is not '.flac', '.spx' or '.wav'
UnsupportedFile == ctor.file \in {<<"a">> \o E_mp3, <<"a">>}

\* C15 as stated: for a name with an unsupported extension the constructor
\* raises SoundFormatNotSupported, whether or not the file exists, and until
\* then it has called no encoder, read no file and built no request.
C15_UnsupportedAlways ==
    UnsupportedFile =>
        /\ NothingBuilt
        /\ cpc # "constructed"
        /\ cpc = "raised" => ctor.exc = "SoundFormatNotSupported"

\* C15 amended: for a name with an unsupported extension the constructor
\* raises SoundFormatNotSupported when the file exists and IOError when it
\* does not, in both cases before any encoder call, file read or request.
C15_UnsupportedExisting ==
    UnsupportedFile =>
        /\ NothingBuilt
        /\ cpc # "constructed"
        /\ cpc = "raised" =>
             ctor.exc = (IF ctor.exists THEN "SoundFormatNotSupported"
                         ELSE "IOError")
\* an existing 'a.mp3' was refused
C15_Witness ==
    /\ cpc = "raised" /\ ctor.file = <<"a">> \o E_mp3 /\ ctor.exists
    /\ ctor.exc = "SoundFormatNotSupported"

\* C16: for '.flac' and '.spx' the encoder is never called; for '.wav' it is
\* called at line 246 and again only at line 252 while its output is missing;
\* and once the transcoding has begun the constructor eventually returns or
\* raises, also when the encoder never produces its output.
C16_TranscodingTerminates ==
    /\ []((ctor.ext # None /\ Val(ctor.ext) \in {E_flac, E_spx})
            => ctor.encoded = 0)
    /\ [][ctor'.encoded # ctor.encoded =>
            (cpc = "c246" \/ (cpc = "c252" /\ ~ctor.tmp))]_vars
    /\ (cpc = "c246") ~> CtorEnded

\* C17: the rate written into the Content-Type header is opt.samplingrate as
\* passed when that is 8000 or 16000, and 16000 otherwise.
C17_HeaderRate ==
    ctor.header # None =>
        RateField(Val(ctor.header)) =
            Digits(IF Val(ctor.rate) \in {8000, 16000}
                   THEN Val(ctor.rate) ELSE 16000)

RECURSIVE UtteranceValues(_)
\* the values of the 'utterance' fields of the hypotheses, in list order
UtteranceValues(hyps) ==
    IF hyps = <<>> THEN <<>>
    ELSE (IF HasKey(hyps[1], K_utterance)
          THEN <<Lookup(hyps[1], K_utterance).s>> ELSE <<>>)
         \o UtteranceValues(Tail(hyps))

\* C19: when _unpackRaw has returned, words holds the hypotheses' utterance
\* values, unchanged and in order, and word is the first of them, or the
\* empty string when there is none.
C19_WordsAreUtterances ==
    wpc = "r213" =>
        LET us == UtteranceValues(Lookup(Val(th.json), K_hypotheses).l)
        IN  /\ th.words = us
            /\ th.word = (IF us = <<>> THEN <<>> ELSE us[1])

\* the script has ended, by sys.exit or by an uncaught exception
CliEnded == cpc \in {"exited", "aborted"}

\* C18: a command-line run over one or more sound files ends only after the
\* loop has taken every file, in the order of the command line, and its exit
\* code is 1 when some file's query timed out or ended without status 0, and
\* 0 otherwise.
C18_AllFilesProcessed ==
    (CliEnded /\ cli.files # <<>>) =>
        /\ cli.done = cli.files
        /\ cli.exit = Some(IF cli.bad THEN 1 ELSE 0)

====
